---------------------------- MODULE Spec2Model ----------------------------
(***************************************************************************)
(* A model of src/use-a11y.ts: the useAccessibility composable.            *)
(*                                                                         *)
(* The module-level state (isAxeRunning, axeInstances, highlightedElement, *)
(* axeQueue, isProcessingQueue) is shared by every instance of the         *)
(* composable; the closure state of an instance (violations, isRunning,    *)
(* hasRunInitialScan, previousViolations, debounceTimeout,                 *)
(* mutationObserver, interactionListeners) is a function of the instance.  *)
(* JavaScript runs one task at a time: an action is one task, or the       *)
(* stretch of an async function between two awaits.                        *)
(***************************************************************************)
EXTENDS Integers, Sequences, FiniteSets, TLC

\* ------------------------------------------------------------------ bounds

\* Scan requests (thunks pushed on axeQueue) in one behaviour.
MaxRequests == 3

\* debounceDelay, in clock ticks.
DebounceDelay == 2

\* Violations in one scan result handed to logViolations directly.
MaxResultSize == 2

\* createViolationKey keeps the first 50 characters of a node's joined target.
KeyTargetLen == 50

\* The composable instances on the page. Instance 1 is created in the setup
\* of a component, with a ref as its element; instance 2 is created outside
\* a component (as the tests do), where onMounted and onUnmounted never run,
\* with a plain element.
Inst == {1, 2}
InComponent == {1}
WithRef == {1}

\* The elements an instance's `element` ref can point to; NoEl is undefined.
Targets == {"el1", "el2"}
NoEl == "undefined"
None == "none"

\* ------------------------------------------------------------ the options

\* The options of useAccessibility that the modelled code reads.
DefaultOptions ==
  [enabled |-> TRUE, enableHighlighting |-> TRUE, watchForChanges |-> TRUE,
   watchInteractions |-> TRUE, waitForContent |-> TRUE]

DisabledOptions == [DefaultOptions EXCEPT !.enabled = FALSE]

BareOptions ==
  [enabled |-> TRUE, enableHighlighting |-> FALSE, watchForChanges |-> FALSE,
   watchInteractions |-> FALSE, waitForContent |-> FALSE]

\* The option sets an instance is created with.
OptionProfiles == {DefaultOptions, DisabledOptions, BareOptions}

\* --------------------------------------------------------- scan results

\* A character string is a sequence of character codes.
Comma == 0
Pipe == 9

Repeat(c, n) == [k \in 1 .. n |-> c]

\* Two selectors that differ only after their 50th character.
LongSelB == Repeat(1, KeyTargetLen) \o <<2>>
LongSelC == Repeat(1, KeyTargetLen) \o <<3>>

\* Raw violations of the scanner (axe Result): id, impact (absent when the
\* scanner gives none) and nodes, each with its target, a list of selectors.
RawImageAlt ==
  [id |-> "image-alt", impact |-> "critical", nodes |-> << [target |-> << <<4>> >>] >>]
RawLabel ==
  [id |-> "label", impact |-> "serious",
   nodes |-> << [target |-> << <<5>>, <<6>> >>], [target |-> << <<7>> >>] >>]
RawRegion ==
  [id |-> "region", impact |-> "absent", nodes |-> << [target |-> << <<8>> >>] >>]
RawContrastB ==
  [id |-> "color-contrast", impact |-> "minor", nodes |-> << [target |-> <<LongSelB>>] >>]
RawContrastC ==
  [id |-> "color-contrast", impact |-> "minor", nodes |-> << [target |-> <<LongSelC>>] >>]

RawViolations == {RawImageAlt, RawLabel, RawRegion, RawContrastB, RawContrastC}

\* results.violations of one scan, as a set.
AllResults == {r \in SUBSET RawViolations : Cardinality(r) <= MaxResultSize}

\* The results the scanner returns to a queued scan.
ScanResults == { {RawImageAlt} }

\* ------------------------------------------------- content readiness

\* maxWaitTime of waitForContentReadiness, in poll periods of 100 ms.
MaxWaitTime == 3

\* The times, since the start of a wait, at which the content is looked at.
PollTimes == 0 .. (MaxWaitTime + 1)

\* setTimeout(checkContent, 100) runs checkContent one period later, or two
\* when the timer is late.
PollDelays == {1, 2}

\* What a target holds during a wait: the times at which hasContentReady
\* would return true, and the delay between two polls.
Contents == [ready : SUBSET PollTimes, delay : PollDelays]

\* A target whose content is ready from the start.
PromptContent == {[ready |-> PollTimes, delay |-> 1]}

\* No wait has resolved yet.
NoGate == [result |-> TRUE, at |-> -1, warned |-> FALSE]

\* ------------------------------------------------------- the locator

\* The attributes findByHtmlContent extracts from the markup. The markup of
\* the element looked for carries one value for each; an element of the
\* document is described by the attributes on which it has that value.
Attrs == {"id", "aria-label", "role", "class", "text"}

\* The light tree of the root holds element A and the shadow host H; the
\* shadow tree of H holds B and the host H2; the shadow tree of H2 holds C.
\* Each tree is the list root.querySelectorAll("*") returns for it.
Tree == [root |-> <<"A", "H">>, shadowH |-> <<"B", "H2">>, shadowH2 |-> <<"C">>]

\* node.shadowRoot.
ShadowRoot(node) ==
  IF node = "H" THEN "shadowH" ELSE IF node = "H2" THEN "shadowH2" ELSE None

\* What the elements A, B and C can look like; the hosts carry no attribute.
Looks ==
  {{}, {"id"}, {"aria-label"}, {"role"}, {"class"}, {"text"}, {"role", "class"}, Attrs}

Documents ==
  {[e \in {"A", "H", "B", "H2", "C"} |-> IF e \in {"H", "H2"} THEN {} ELSE look[e]] :
     look \in [{"A", "B", "C"} -> Looks]}

\* The serialized markups searched for: the attributes they carry.
Markups == {Attrs, {"id", "role"}, {"role", "class"}, {"class", "text"}}

\* No search yet: no markup, on a document without attributes.
NoSearch == [doc |-> [e \in {"A", "H", "B", "H2", "C"} |-> {}], html |-> {}, element |-> None]

RECURSIVE First(_, _, _)
\* root.querySelector: the first element of the tree, from position k on,
\* that has every attribute of `wanted`.
First(nodes, k, hit) ==
  IF k > Len(nodes) THEN None
  ELSE IF hit[nodes[k]] THEN nodes[k]
  ELSE First(nodes, k + 1, hit)

querySelector(doc, tree, wanted) ==
  First(Tree[tree], 1, [e \in DOMAIN doc |-> wanted \subseteq doc[e]])

\* The strategies of findByHtmlContent in the order it tries them: the
\* attributes the markup must carry, which are those the element must have.
Strategies ==
  <<{"id"}, {"aria-label"}, {"role", "class"}, {"role"}, {"class"}, {"text"}>>

RECURSIVE TryFrom(_, _, _, _)
TryFrom(k, html, doc, tree) ==
  IF k > Len(Strategies) THEN None
  ELSE LET element == IF Strategies[k] \subseteq html
                      THEN querySelector(doc, tree, Strategies[k])
                      ELSE None
       IN IF element # None THEN element ELSE TryFrom(k + 1, html, doc, tree)

\* findByHtmlContent on one tree.
findByHtmlContent(html, doc, tree) == TryFrom(1, html, doc, tree)

RECURSIVE searchAllShadowRoots(_, _, _)
RECURSIVE SearchEach(_, _, _, _)
\* The loops of searchAllShadowRoots over the elements of a tree.
SearchEach(nodes, k, html, doc) ==
  IF k > Len(nodes) THEN None
  ELSE LET result == searchAllShadowRoots(nodes[k], html, doc)
       IN IF result # None THEN result ELSE SearchEach(nodes, k + 1, html, doc)

searchAllShadowRoots(node, html, doc) ==
  IF ShadowRoot(node) = None THEN None
  ELSE LET found == findByHtmlContent(html, doc, ShadowRoot(node))
       IN IF found # None THEN found
          ELSE SearchEach(Tree[ShadowRoot(node)], 1, html, doc)

\* findByHtmlContentInAllShadowRoots from the root.
findByHtmlContentInAllShadowRoots(html, doc) ==
  LET mainDocElement == findByHtmlContent(html, doc, "root")
  IN IF mainDocElement # None THEN mainDocElement
     ELSE SearchEach(Tree["root"], 1, html, doc)

\* -------------------------------------------------- the mutation records

\* An attribute name, in the pieces startsWith can tell apart.
Aria(rest) == <<"aria-", rest>>

\* The attributes a change is tried with.
AttributeNames ==
  {Aria("expanded"), Aria("hidden"), Aria("label"), Aria("disabled"),
   <<"role">>, <<"tabindex">>, <<"alt">>, <<"title">>, <<"disabled">>, <<"hidden">>,
   <<"class">>, <<"style">>, <<"id">>, <<"for">>, <<"data-", "state">>, <<"href">>}

\* The mutation records of one change: a node added, a node removed, an
\* attribute changed.
MutationRecords ==
  [type : {"childList"}, nodes : {"added", "removed"}, attributeName : {<<>>}]
    \cup [type : {"attributes"}, nodes : {"none"}, attributeName : AttributeNames]

NoMutation == [inst |-> 0, record |-> [type |-> None, nodes |-> "none", attributeName |-> <<>>]]

\* The attributeFilter of observe().
attributeFilter ==
  {Aria("expanded"), Aria("hidden"), Aria("selected"), Aria("checked"),
   <<"role">>, <<"tabindex">>, <<"alt">>, <<"title">>, <<"disabled">>, <<"hidden">>,
   <<"class">>}

\* observe() with childList, subtree, attributes and the filter: the changes
\* the observer is told of.
Observed(m) == m.type = "childList" \/ m.attributeName \in attributeFilter

\* The relevantAttributes of the callback.
relevantAttributes ==
  {<<"aria-">>, <<"role">>, <<"tabindex">>, <<"alt">>, <<"title">>, <<"disabled">>,
   <<"hidden">>, <<"class">>, <<"style">>, <<"id">>, <<"for">>,
   Aria("hidden"), Aria("expanded"), Aria("selected"), Aria("checked")}

\* String.prototype.startsWith.
startsWith(name, attr) ==
  Len(attr) <= Len(name) /\ SubSeq(name, 1, Len(attr)) = attr

\* The callback's verdict on one record.
shouldRerun(m) ==
  \/ m.nodes # "none"
  \/ /\ m.type = "attributes"
     /\ m.attributeName # <<>>
     /\ \E attr \in relevantAttributes : startsWith(m.attributeName, attr) \/ m.attributeName = attr

\* ------------------------------------------------------------- variables

VARIABLES
  options,              \* instance -> its options (fixed at creation)
  element,              \* instance -> what its `element` ref holds
  phase,                \* instance -> "setup" | "mounted" | "unmounted"
  \* module-level state
  isAxeRunning,
  axeInstances,
  highlightedElement,   \* id of the overlay node, or None
  axeQueue,             \* sequence of queued thunks
  isProcessingQueue,
  \* closure state of an instance
  violations,
  isRunning,
  hasRunInitialScan,
  previousViolations,
  debounceTimeout,      \* instance -> remaining ticks of its pending debounce timers
  mutationObserver,     \* instance -> the element its observer observes, or None
  interactionListeners, \* instance -> the elements its remover callbacks name
  \* the event loop and the document
  running,              \* the queuedRun executions between two awaits
  mountTimer,           \* instance -> the initialScanDelay timer is pending
  settleTimers,         \* instance -> pending 500 ms timers of finished initial scans
  retryTimers,          \* instance -> pending 1000 ms busy-retry timers
  attached,             \* instance -> element -> listener groups attached to it
  overlays,             \* the overlay nodes in document.body: id -> bounds
  console,              \* instance -> its last logViolations call: the flag, and what it reported
  diagnostic,           \* what the thunk that ended last wrote with console.warn or console.error
  uncaught,             \* an error has left processAxeQueue uncaught
  gate,                 \* how the last waitForContentReadiness resolved
  located,              \* the last search by markup: the document, the markup, the element found
  mutation,             \* the last change made on an observed subtree, and the instance observing it
  \* observation
  nextTicket,           \* number of the next scan request
  initialScans,         \* instance -> initial scans that completed
  skipped,              \* a thunk took the "already running" early return
  sinceTrigger,         \* instance -> ticks since its last debounce trigger (-1: none yet)
  burstRequests,        \* instance -> requests issued since the current burst began
  burstTriggers,        \* instance -> triggers of the current burst (2: two or more)
  repeated              \* instance -> its last logViolations call had the results and the flag of the call before

vars ==
  <<options, element, phase, isAxeRunning, axeInstances, highlightedElement,
    axeQueue, isProcessingQueue, violations, isRunning, hasRunInitialScan,
    previousViolations, debounceTimeout, mutationObserver,
    interactionListeners, running, mountTimer, settleTimers, retryTimers,
    attached, overlays, console, diagnostic, uncaught, gate, located, mutation,
    nextTicket,
    initialScans,
    skipped, sinceTrigger, burstRequests, burstTriggers, repeated>>

\* --------------------------------------------------------- the differ

Min(a, b) == IF a <= b THEN a ELSE b

Slice(s, n) == SubSeq(s, 1, Min(Len(s), n))

RECURSIVE Join(_, _)
\* Array.prototype.join: the strings of `parts` with `sep` between them.
Join(parts, sep) ==
  IF parts = <<>> THEN <<>>
  ELSE IF Len(parts) = 1 THEN parts[1]
  ELSE parts[1] \o <<sep>> \o Join(Tail(parts), sep)

\* `${violation.impact}` in a template string.
ImpactText(impact) == IF impact = "absent" THEN "undefined" ELSE impact

\* createViolationKey: `${id}:${impact}:${nodes.map(target.join(",").slice(0, 50)).join("|")}`
createViolationKey(v) ==
  <<v.id, ImpactText(v.impact),
    Join([k \in 1 .. Len(v.nodes) |-> Slice(Join(v.nodes[k].target, Comma), KeyTargetLen)], Pipe)>>

\* The ViolationLogEntry logViolations stores for a raw violation.
LogEntry(v) ==
  [id |-> v.id, impact |-> IF v.impact = "absent" THEN "unknown" ELSE v.impact,
   nodes |-> v.nodes]

StoreViolations(results) == {LogEntry(v) : v \in results}

newViolations(previous, results) ==
  {v \in results : createViolationKey(v) \notin {createViolationKey(p) : p \in previous}}

resolvedViolations(previous, results) ==
  {p \in previous : createViolationKey(p) \notin {createViolationKey(v) : v \in results}}

\* What logViolations reports: everything on an initial scan or with no
\* previous violations, otherwise the new and the resolved ones.
Report(previous, results, isInitialScan) ==
  IF isInitialScan \/ previous = {}
  THEN [initial |-> isInitialScan, kind |-> "all", added |-> results, removed |-> {}]
  ELSE [initial |-> isInitialScan,
        kind |-> IF newViolations(previous, results) # {} \/ resolvedViolations(previous, results) # {}
                 THEN "update" ELSE "silent",
        added |-> newViolations(previous, results),
        removed |-> resolvedViolations(previous, results)]

\* Nothing logged yet.
NoReport == [initial |-> FALSE, kind |-> "none", added |-> {}, removed |-> {}]

\* ------------------------------------------------------- the run queue

\* The scheduler's part of the state, as the value the operators below transform.
Sched ==
  [queue |-> axeQueue, running |-> running, processing |-> isProcessingQueue,
   ticket |-> nextTicket, skipped |-> skipped]

SetSched(S) ==
  /\ axeQueue' = S.queue
  /\ running' = S.running
  /\ isProcessingQueue' = S.processing
  /\ nextTicket' = S.ticket
  /\ skipped' = S.skipped

\* A queue that hands out its newest thunk first.
ShiftNewest(q) == [run |-> q[Len(q)], rest |-> SubSeq(q, 1, Len(q) - 1)]

\* axeQueue.shift(): the thunk taken and the queue left.
Shift(q) == [run |-> Head(q), rest |-> Tail(q)]

\* A drain that gives up its turn without running anything.
DrainGivesUp(S, axeRunning) == [S EXCEPT !.processing = FALSE]

\* queuedRun up to its first await: the early return when isAxeRunning is
\* set, otherwise the thunk is left waiting for import("axe-core").
RECURSIVE DrainLoop(_, _)
\* The while loop of processAxeQueue from its test to the next await that
\* suspends it on a scan, or to its end.
DrainLoop(S, axeRunning) ==
  IF S.queue = <<>>
  THEN [S EXCEPT !.processing = FALSE]
  ELSE LET sh == Shift(S.queue)
       IN IF axeRunning
          THEN DrainLoop([S EXCEPT !.queue = sh.rest, !.skipped = TRUE], axeRunning)
          ELSE [S EXCEPT !.queue = sh.rest,
                         !.running = @ \cup {[inst |-> sh.run.inst, initial |-> sh.run.initial,
                                              ticket |-> sh.run.ticket, pc |-> "import",
                                              target |-> None]}]

\* A processAxeQueue that does not test isProcessingQueue.
DrainBlockedOnEmptyOnly(S) == S.queue = <<>>

\* The guard of processAxeQueue.
DrainBlocked(S) == S.processing \/ S.queue = <<>>

processAxeQueue(S, axeRunning) ==
  IF DrainBlocked(S) THEN S
  ELSE DrainLoop([S EXCEPT !.processing = TRUE], axeRunning)

\* A runAxe without its initial-scan guard.
ReturnsEarlyOnDisabledOnly(i, isInitialScan) == ~options[i].enabled

\* A runAxe without its enabled guard.
ReturnsEarlyOnInitialOnly(i, isInitialScan) == isInitialScan /\ hasRunInitialScan[i]

\* runAxe returns at once on a disabled instance, and on an initial scan
\* request of an instance whose initial scan has completed.
RunAxeReturnsEarly(i, isInitialScan) ==
  \/ ~options[i].enabled
  \/ isInitialScan /\ hasRunInitialScan[i]

runAxe(i, isInitialScan, S, axeRunning) ==
  IF RunAxeReturnsEarly(i, isInitialScan) THEN S
  ELSE processAxeQueue(
         [S EXCEPT !.queue = Append(@, [inst |-> i, initial |-> isInitialScan, ticket |-> S.ticket]),
                   !.ticket = @ + 1],
         axeRunning)

\* A behaviour holds at most MaxRequests scan requests.
MayRequest(i, isInitialScan) ==
  RunAxeReturnsEarly(i, isInitialScan) \/ nextTicket <= MaxRequests

\* --------------------------------------------------------- the watchers

\* setupMutationObserver: the observer of instance i afterwards.
setupMutationObserver(i, el, observer) ==
  IF ~options[i].watchForChanges \/ observer # None THEN observer
  ELSE IF el = NoEl THEN observer
  ELSE el

\* setupInteractionListeners attaches one listener per event type to the target.
ListenersAdded(i, el) == options[i].watchInteractions /\ el # NoEl

\* interactionListeners afterwards: the removers pushed.
setupInteractionListeners(i, el, listeners) ==
  IF ListenersAdded(i, el) THEN Append(listeners, el) ELSE listeners

\* The listeners in the document afterwards.
AttachListeners(i, el, att) ==
  IF ListenersAdded(i, el) THEN [att EXCEPT ![el] = @ + 1] ELSE att

NoListeners == [t \in Targets |-> 0]

\* Removers that detach nothing.
KeepListeners(listeners, att) == att

RECURSIVE RemoveListeners(_, _)
\* interactionListeners.forEach(removeListener): each remover detaches its listener.
RemoveListeners(listeners, att) ==
  IF listeners = <<>> THEN att
  ELSE RemoveListeners(Tail(listeners),
                       [att EXCEPT ![Head(listeners)] = IF @ > 0 THEN @ - 1 ELSE 0])

\* ---------------------------------------------------------- the overlay

\* A removeHighlight that leaves the node in the document.
KeepHighlightNodes(nodes, ref) == nodes

\* removeHighlight: the overlay nodes left in the document.
RemoveHighlightNodes(nodes, ref) ==
  IF ref # None THEN [n \in (DOMAIN nodes) \ {ref} |-> nodes[n]] ELSE nodes

\* The identities a new overlay node can take, in the order they are used.
OverlayIds == <<"node1", "node2", "node3">>

FreshId(nodes) ==
  OverlayIds[CHOOSE k \in 1 .. Len(OverlayIds) :
               /\ OverlayIds[k] \notin DOMAIN nodes
               /\ \A m \in 1 .. (k - 1) : OverlayIds[m] \in DOMAIN nodes]

\* highlightElement on an instance with highlighting enabled: removeHighlight,
\* then a new overlay with the element's bounds is appended.
HighlightNodes(nodes, ref, el) ==
  LET left == RemoveHighlightNodes(nodes, ref)
  IN [n \in (DOMAIN left) \cup {FreshId(nodes)} |-> IF n \in DOMAIN left THEN left[n] ELSE el]

\* The node document.createElement returned is none of the nodes in the document.
HighlightRef(nodes) == FreshId(nodes)

\* ----------------------------------------------------------- cleanup

CleanupInstances(i, instances) == instances \ {i}

\* A cleanup that does not disconnect the observer.
KeepObserver(observer) == observer

\* mutationObserver.disconnect(); mutationObserver = null.
CleanupObserver(observer) == None

CleanupListeners(listeners) == <<>>

\* The last instance gone resets the global flag.
CleanupAxeRunning(i, instances, axeRunning) ==
  IF CleanupInstances(i, instances) = {} THEN FALSE ELSE axeRunning

\* ---------------------------------------------------------- the actions

EmptyOverlays == [n \in {} |-> None]

\* The state useAccessibility leaves, whatever the options.
Created ==
  /\ element = [i \in Inst |-> "el1"]
  /\ phase = [i \in Inst |-> "setup"]
  /\ isAxeRunning = FALSE
  /\ axeInstances = {}
  /\ highlightedElement = None
  /\ axeQueue = <<>>
  /\ isProcessingQueue = FALSE
  /\ violations = [i \in Inst |-> {}]
  /\ isRunning = [i \in Inst |-> FALSE]
  /\ hasRunInitialScan = [i \in Inst |-> FALSE]
  /\ previousViolations = [i \in Inst |-> {}]
  /\ debounceTimeout = [i \in Inst |-> {}]
  /\ mutationObserver = [i \in Inst |-> None]
  /\ interactionListeners = [i \in Inst |-> <<>>]
  /\ running = {}
  /\ mountTimer = [i \in Inst |-> FALSE]
  /\ settleTimers = [i \in Inst |-> 0]
  /\ retryTimers = [i \in Inst |-> 0]
  /\ attached = [i \in Inst |-> NoListeners]
  /\ overlays = EmptyOverlays
  /\ console = [i \in Inst |-> NoReport]
  /\ diagnostic = None
  /\ uncaught = FALSE
  /\ gate = NoGate
  /\ located = NoSearch
  /\ mutation = NoMutation
  /\ nextTicket = 1
  /\ initialScans = [i \in Inst |-> 0]
  /\ skipped = FALSE
  /\ sinceTrigger = [i \in Inst |-> -1]
  /\ burstRequests = [i \in Inst |-> 0]
  /\ burstTriggers = [i \in Inst |-> 0]
  /\ repeated = [i \in Inst |-> FALSE]

Init ==
  /\ options \in [Inst -> OptionProfiles]
  /\ options[1] = DefaultOptions
  /\ options[2] # DefaultOptions
  /\ Created

schedVars == <<axeQueue, running, isProcessingQueue, nextTicket, skipped>>
watchVars == <<mutationObserver, interactionListeners, attached>>
scanVars == <<violations, previousViolations, console, repeated, hasRunInitialScan, initialScans>>
timerVars == <<mountTimer, settleTimers, retryTimers>>
debounceVars == <<debounceTimeout, sinceTrigger, burstRequests, burstTriggers>>
overlayVars == <<highlightedElement, overlays>>
flagVars == <<isAxeRunning, axeInstances, isRunning>>
fixedVars == <<options, element, phase>>
errorVars == <<diagnostic, uncaught>>

\* The two setup calls that follow a scan request or a settle delay.
SetupWatchers(i) ==
  /\ mutationObserver' = [mutationObserver EXCEPT ![i] = setupMutationObserver(i, element[i], @)]
  /\ interactionListeners' =
       [interactionListeners EXCEPT ![i] = setupInteractionListeners(i, element[i], @)]
  /\ attached' = [attached EXCEPT ![i] = AttachListeners(i, element[i], @)]

\* The component mounts: onMounted arms the initialScanDelay timer.
Mount(i) ==
  /\ i \in InComponent
  /\ phase[i] = "setup"
  /\ phase' = [phase EXCEPT ![i] = "mounted"]
  /\ mountTimer' = [mountTimer EXCEPT ![i] = TRUE]
  /\ UNCHANGED <<options, element, schedVars, watchVars, scanVars, settleTimers, retryTimers,
                 debounceVars, overlayVars, flagVars>>
  /\ UNCHANGED errorVars
  /\ UNCHANGED gate
  /\ UNCHANGED located
  /\ UNCHANGED mutation

\* The initialScanDelay timer: runAxe(true), then the two setups.
MountTimerFire(i) ==
  /\ mountTimer[i]
  /\ MayRequest(i, TRUE)
  /\ mountTimer' = [mountTimer EXCEPT ![i] = FALSE]
  /\ SetSched(runAxe(i, TRUE, Sched, isAxeRunning))
  /\ SetupWatchers(i)
  /\ UNCHANGED <<fixedVars, scanVars, settleTimers, retryTimers, debounceVars, overlayVars, flagVars>>
  /\ UNCHANGED errorVars
  /\ UNCHANGED gate
  /\ UNCHANGED located
  /\ UNCHANGED mutation

\* The caller calls the returned runAxe.
CallRunAxe(i, isInitialScan) ==
  /\ MayRequest(i, isInitialScan)
  /\ SetSched(runAxe(i, isInitialScan, Sched, isAxeRunning))
  /\ UNCHANGED <<fixedVars, watchVars, scanVars, timerVars, debounceVars, overlayVars, flagVars>>
  /\ UNCHANGED errorVars
  /\ UNCHANGED gate
  /\ UNCHANGED located
  /\ UNCHANGED mutation

\* What a thunk can throw inside its try block.
Errors == {"busy", "scanner", "import"}

TargetNotFound == "Target element for accessibility testing not found"
ScanError == "Error running accessibility scan:"
QueueError == "Error in queued accessibility scan:"

\* A catch clause that lets every error but the busy one through.
CatchesBusyOnly(error) == error = "busy"

\* catch (error) of queuedRun: it takes every error.
QueuedRunCatches(error) == TRUE

\* catch (error) of processAxeQueue around await nextRun().
DrainCatches(error) == TRUE

\* The catch block of queuedRun: the busy error is not reported.
CatchLog(error) == IF error = "busy" THEN None ELSE ScanError

\* An error thrown inside the try block of thunk t: where it ends.
Throw(error) ==
  IF QueuedRunCatches(error)
  THEN diagnostic' = CatchLog(error) /\ uncaught' = uncaught
  ELSE IF DrainCatches(error)
  THEN diagnostic' = QueueError /\ uncaught' = uncaught
  ELSE diagnostic' = None /\ uncaught' = TRUE

\* A busy retry that gives up after the second attempt.
BusyRetriesCapped(isInitialScan, ticket, timers) ==
  IF isInitialScan /\ ticket < 2 THEN timers + 1 ELSE timers

\* A busy retry for every scan, initial or not.
BusyRetriesAlways(isInitialScan, ticket, timers) == timers + 1

\* The retry timers of an instance after a busy scan: one more for an
\* initial scan, with no count of the attempts made.
BusyRetries(isInitialScan, ticket, timers) == IF isInitialScan THEN timers + 1 ELSE timers

\* A thunk ends: its finally block has cleared the flags, and the loop of
\* processAxeQueue goes on with the next thunk.
Finish(t) == DrainLoop([Sched EXCEPT !.running = @ \ {t}], FALSE)

\* A target test that finds every target present.
TargetNeverMissing(el) == FALSE

\* if (!targetElement): the ref holds no element.
TargetMissing(el) == el = NoEl

\* import("axe-core") resolves: the flags are set and the target is read. A
\* missing target ends the run with a warning.
ImportDone(t) ==
  /\ t \in running /\ t.pc = "import"
  /\ axeInstances' = axeInstances \cup {t.inst}
  /\ IF TargetMissing(element[t.inst])
     THEN /\ SetSched(Finish(t))
          /\ isAxeRunning' = FALSE
          /\ isRunning' = [isRunning EXCEPT ![t.inst] = FALSE]
          /\ diagnostic' = TargetNotFound
          /\ uncaught' = uncaught
     ELSE /\ running' = (running \ {t}) \cup
                {[t EXCEPT !.pc = IF t.initial THEN "ready" ELSE "scan", !.target = element[t.inst]]}
          /\ isAxeRunning' = TRUE
          /\ isRunning' = [isRunning EXCEPT ![t.inst] = TRUE]
          /\ UNCHANGED <<axeQueue, isProcessingQueue, nextTicket, skipped, errorVars>>
  /\ UNCHANGED <<fixedVars, watchVars, scanVars, timerVars, debounceVars, overlayVars>>
  /\ UNCHANGED gate
  /\ UNCHANGED located
  /\ UNCHANGED mutation

\* import("axe-core") rejects: the error is logged and the flags are cleared.
ImportFailed(t) ==
  /\ t \in running /\ t.pc = "import"
  /\ Throw("import")
  /\ SetSched(Finish(t))
  /\ isAxeRunning' = FALSE
  /\ isRunning' = [isRunning EXCEPT ![t.inst] = FALSE]
  /\ UNCHANGED <<fixedVars, axeInstances, watchVars, scanVars, timerVars, debounceVars, overlayVars>>
  /\ UNCHANGED gate
  /\ UNCHANGED located
  /\ UNCHANGED mutation

\* A gate that gives up two periods late.
TimedOutLate(elapsed) == elapsed >= MaxWaitTime + 2

\* elapsed >= maxWaitTime.
TimedOut(elapsed) == elapsed >= MaxWaitTime

RECURSIVE checkContent(_, _)
\* checkContent at `elapsed` after the start of the wait, the content being
\* ready at the times content.ready and the polls content.delay apart: how
\* the promise of waitForContentReadiness resolves.
checkContent(elapsed, content) ==
  IF elapsed \in content.ready
  THEN [result |-> TRUE, at |-> elapsed, warned |-> FALSE]
  ELSE IF TimedOut(elapsed)
  THEN [result |-> FALSE, at |-> elapsed, warned |-> TRUE]
  ELSE checkContent(elapsed + content.delay, content)

waitForContentReadiness(i, content) ==
  IF ~options[i].waitForContent
  THEN [result |-> TRUE, at |-> 0, warned |-> FALSE]
  ELSE checkContent(0, content)

\* waitForContentReadiness resolves, with true or with false: axe.run is
\* called.
ReadinessResolved(t, content) ==
  /\ t \in running /\ t.pc = "ready"
  /\ gate' = waitForContentReadiness(t.inst, content)
  /\ running' = (running \ {t}) \cup {[t EXCEPT !.pc = "scan"]}
  /\ UNCHANGED <<axeQueue, isProcessingQueue, nextTicket, skipped, fixedVars, watchVars,
                 scanVars, timerVars, debounceVars, overlayVars, flagVars>>
  /\ UNCHANGED errorVars
  /\ UNCHANGED located
  /\ UNCHANGED mutation

\* A logViolations that adds the new results to the stored ones.
LogViolationsMerging(i, results, isInitialScan) ==
  /\ violations' = [violations EXCEPT ![i] = @ \cup StoreViolations(results)]
  /\ console' = [console EXCEPT ![i] = Report(previousViolations[i], results, isInitialScan)]
  /\ previousViolations' = [previousViolations EXCEPT ![i] = StoreViolations(results)]
  /\ repeated' = [repeated EXCEPT ![i] = /\ console[i].kind # "none"
                                         /\ console[i].initial = isInitialScan
                                         /\ violations[i] = StoreViolations(results)]

\* A logViolations that leaves previousViolations as it was.
LogViolationsKeepPrevious(i, results, isInitialScan) ==
  /\ violations' = [violations EXCEPT ![i] = StoreViolations(results)]
  /\ console' = [console EXCEPT ![i] = Report(previousViolations[i], results, isInitialScan)]
  /\ previousViolations' = previousViolations
  /\ repeated' = [repeated EXCEPT ![i] = /\ console[i].kind # "none"
                                         /\ console[i].initial = isInitialScan
                                         /\ violations[i] = StoreViolations(results)]

\* logViolations on instance i.
LogViolations(i, results, isInitialScan) ==
  /\ violations' = [violations EXCEPT ![i] = StoreViolations(results)]
  /\ console' = [console EXCEPT ![i] = Report(previousViolations[i], results, isInitialScan)]
  /\ previousViolations' = [previousViolations EXCEPT ![i] = StoreViolations(results)]
  /\ repeated' = [repeated EXCEPT ![i] = /\ console[i].kind # "none"
                                         /\ console[i].initial = isInitialScan
                                         /\ violations[i] = StoreViolations(results)]

\* A finally block that clears the global flag only.
FinallyGlobalOnly(t) == isAxeRunning' = FALSE /\ UNCHANGED isRunning

\* A finally block that resets the instance's flag only.
FinallyLocalOnly(t) == isRunning' = [isRunning EXCEPT ![t.inst] = FALSE] /\ UNCHANGED isAxeRunning

\* A queuedRun without its finally block.
FinallyLeftOut(t) == UNCHANGED <<isRunning, isAxeRunning>>

\* The finally block of queuedRun.
Finally(t) ==
  /\ isRunning' = [isRunning EXCEPT ![t.inst] = FALSE]
  /\ isAxeRunning' = FALSE

\* axe.run resolves: the results are logged; an initial scan marks the
\* instance and arms the settle timer.
ScanSucceeded(t, results) ==
  /\ t \in running /\ t.pc = "scan"
  /\ LogViolations(t.inst, results, t.initial)
  /\ IF t.initial
     THEN /\ hasRunInitialScan' = [hasRunInitialScan EXCEPT ![t.inst] = TRUE]
          /\ settleTimers' = [settleTimers EXCEPT ![t.inst] = @ + 1]
          /\ initialScans' = [initialScans EXCEPT ![t.inst] = @ + 1]
     ELSE UNCHANGED <<hasRunInitialScan, settleTimers, initialScans>>
  /\ diagnostic' = None
  /\ uncaught' = uncaught
  /\ Finally(t)
  /\ SetSched(Finish(t))
  /\ UNCHANGED <<fixedVars, axeInstances, watchVars, mountTimer, retryTimers, debounceVars, overlayVars>>
  /\ UNCHANGED gate
  /\ UNCHANGED located
  /\ UNCHANGED mutation

\* axe.run rejects with "Axe is already running": an initial scan is retried
\* after 1000 ms.
ScanBusy(t) ==
  /\ t \in running /\ t.pc = "scan"
  /\ retryTimers' = [retryTimers EXCEPT ![t.inst] = BusyRetries(t.initial, t.ticket, @)]
  /\ Throw("busy")
  /\ Finally(t)
  /\ SetSched(Finish(t))
  /\ UNCHANGED <<fixedVars, axeInstances, watchVars, scanVars, mountTimer, settleTimers,
                 debounceVars, overlayVars>>
  /\ UNCHANGED gate
  /\ UNCHANGED located
  /\ UNCHANGED mutation

\* axe.run rejects with another error: it is logged.
ScanFailed(t) ==
  /\ t \in running /\ t.pc = "scan"
  /\ Throw("scanner")
  /\ Finally(t)
  /\ SetSched(Finish(t))
  /\ UNCHANGED <<fixedVars, axeInstances, watchVars, scanVars, timerVars, debounceVars, overlayVars>>
  /\ UNCHANGED gate
  /\ UNCHANGED located
  /\ UNCHANGED mutation

\* The 500 ms timer armed by a finished initial scan.
SettleTimerFire(i) ==
  /\ settleTimers[i] > 0
  /\ settleTimers' = [settleTimers EXCEPT ![i] = @ - 1]
  /\ SetupWatchers(i)
  /\ UNCHANGED <<fixedVars, schedVars, scanVars, mountTimer, retryTimers, debounceVars,
                 overlayVars, flagVars>>
  /\ UNCHANGED errorVars
  /\ UNCHANGED gate
  /\ UNCHANGED located
  /\ UNCHANGED mutation

\* The 1000 ms timer armed by a busy initial scan: runAxe(true).
RetryTimerFire(i) ==
  /\ retryTimers[i] > 0
  /\ MayRequest(i, TRUE)
  /\ retryTimers' = [retryTimers EXCEPT ![i] = @ - 1]
  /\ SetSched(runAxe(i, TRUE, Sched, isAxeRunning))
  /\ UNCHANGED <<fixedVars, watchVars, scanVars, mountTimer, settleTimers, debounceVars,
                 overlayVars, flagVars>>
  /\ UNCHANGED errorVars
  /\ UNCHANGED gate
  /\ UNCHANGED located
  /\ UNCHANGED mutation

\* ------------------------------------------------------- the debounce

\* A debouncedRunAxe that does not clear the pending timer.
KeepTimeout(timers) == timers

\* clearTimeout(debounceTimeout): the pending timers left.
ClearTimeout(timers) == {}

\* debouncedRunAxe: the pending timers afterwards.
debouncedRunAxe(timers) == ClearTimeout(timers) \cup {DebounceDelay}

\* A trigger that arrives debounceDelay or more after the one before it
\* begins a new burst.
Trigger(i) ==
  /\ debounceTimeout' = [debounceTimeout EXCEPT ![i] = debouncedRunAxe(@)]
  /\ burstRequests' =
       [burstRequests EXCEPT ![i] = IF sinceTrigger[i] \in 0 .. (DebounceDelay - 1) THEN @ ELSE 0]
  /\ burstTriggers' =
       [burstTriggers EXCEPT ![i] = IF sinceTrigger[i] \in 0 .. (DebounceDelay - 1) THEN 2 ELSE 1]
  /\ sinceTrigger' = [sinceTrigger EXCEPT ![i] = 0]

\* The MutationObserver callback with a batch that asks for a re-scan.
MutationBatch(i) ==
  /\ mutationObserver[i] # None
  /\ Trigger(i)
  /\ UNCHANGED <<fixedVars, schedVars, watchVars, scanVars, timerVars, overlayVars, flagVars>>
  /\ UNCHANGED errorVars
  /\ UNCHANGED gate
  /\ UNCHANGED located
  /\ UNCHANGED mutation

\* A change on the subtree instance i observes: the observer is told of it
\* if observe() asked for it, and its callback then calls debouncedRunAxe if
\* the record is one it looks for.
DomChange(i, m) ==
  /\ mutationObserver[i] # None
  /\ mutation' = [inst |-> i, record |-> m]
  /\ IF Observed(m) /\ shouldRerun(m) THEN Trigger(i) ELSE UNCHANGED debounceVars
  /\ UNCHANGED <<fixedVars, schedVars, watchVars, scanVars, timerVars, overlayVars, flagVars>>
  /\ UNCHANGED errorVars
  /\ UNCHANGED gate
  /\ UNCHANGED located

\* An interaction event on a target: every listener attached for its type
\* calls handleUserInteraction.
InteractionEvent(i) ==
  /\ \E el \in Targets : attached[i][el] > 0
  /\ Trigger(i)
  /\ UNCHANGED <<fixedVars, schedVars, watchVars, scanVars, timerVars, overlayVars, flagVars>>
  /\ UNCHANGED errorVars
  /\ UNCHANGED gate
  /\ UNCHANGED located
  /\ UNCHANGED mutation

\* One tick of the clock.
Tick ==
  /\ \E i \in Inst : sinceTrigger[i] \in 0 .. (DebounceDelay - 1) \/ \E r \in debounceTimeout[i] : r > 0
  /\ debounceTimeout' =
       [i \in Inst |-> {IF r > 0 THEN r - 1 ELSE 0 : r \in debounceTimeout[i]}]
  /\ sinceTrigger' =
       [i \in Inst |-> IF sinceTrigger[i] \in 0 .. (DebounceDelay - 1)
                       THEN sinceTrigger[i] + 1 ELSE sinceTrigger[i]]
  /\ UNCHANGED <<fixedVars, schedVars, watchVars, scanVars, timerVars, overlayVars, flagVars,
                 burstRequests, burstTriggers>>
  /\ UNCHANGED errorVars
  /\ UNCHANGED gate
  /\ UNCHANGED located
  /\ UNCHANGED mutation

\* A debounce timer is due: after nextTick, runAxe(false).
DebounceFire(i) ==
  /\ 0 \in debounceTimeout[i]
  /\ MayRequest(i, FALSE)
  /\ debounceTimeout' = [debounceTimeout EXCEPT ![i] = @ \ {0}]
  /\ burstRequests' = [burstRequests EXCEPT ![i] = Min(@ + 1, 2)]
  /\ SetSched(runAxe(i, FALSE, Sched, isAxeRunning))
  /\ UNCHANGED <<fixedVars, watchVars, scanVars, timerVars, sinceTrigger, burstTriggers, overlayVars,
                 flagVars>>
  /\ UNCHANGED errorVars
  /\ UNCHANGED gate
  /\ UNCHANGED located
  /\ UNCHANGED mutation

\* ------------------------------------------ cleanup and target change

\* cleanup() on instance i.
Cleanup(i) ==
  /\ axeInstances' = CleanupInstances(i, axeInstances)
  /\ overlays' = RemoveHighlightNodes(overlays, highlightedElement)
  /\ highlightedElement' = None
  /\ mutationObserver' = [mutationObserver EXCEPT ![i] = CleanupObserver(@)]
  /\ attached' = [attached EXCEPT ![i] = RemoveListeners(interactionListeners[i], @)]
  /\ interactionListeners' = [interactionListeners EXCEPT ![i] = CleanupListeners(@)]
  /\ isAxeRunning' = CleanupAxeRunning(i, axeInstances, isAxeRunning)

\* The caller calls the returned cleanup.
CallCleanup(i) ==
  /\ Cleanup(i)
  /\ UNCHANGED <<fixedVars, schedVars, scanVars, timerVars, debounceVars, isRunning>>
  /\ UNCHANGED errorVars
  /\ UNCHANGED gate
  /\ UNCHANGED located
  /\ UNCHANGED mutation

\* The component unmounts: onUnmounted(cleanup).
Unmount(i) ==
  /\ phase[i] = "mounted"
  /\ phase' = [phase EXCEPT ![i] = "unmounted"]
  /\ Cleanup(i)
  /\ UNCHANGED <<options, element, schedVars, scanVars, timerVars, debounceVars, isRunning>>
  /\ UNCHANGED errorVars
  /\ UNCHANGED gate
  /\ UNCHANGED located
  /\ UNCHANGED mutation

\* The watched element ref changes: cleanup(), then after nextTick the two
\* setups on the new element and runAxe().
TargetChange(i, el) ==
  /\ i \in WithRef
  /\ phase[i] # "unmounted"
  /\ el # element[i]
  /\ MayRequest(i, FALSE)
  /\ element' = [element EXCEPT ![i] = el]
  /\ axeInstances' = CleanupInstances(i, axeInstances)
  /\ overlays' = RemoveHighlightNodes(overlays, highlightedElement)
  /\ highlightedElement' = None
  /\ isAxeRunning' = CleanupAxeRunning(i, axeInstances, isAxeRunning)
  /\ mutationObserver' =
       [mutationObserver EXCEPT ![i] = setupMutationObserver(i, el, CleanupObserver(@))]
  /\ interactionListeners' =
       [interactionListeners EXCEPT ![i] = setupInteractionListeners(i, el, CleanupListeners(@))]
  /\ attached' =
       [attached EXCEPT ![i] = AttachListeners(i, el, RemoveListeners(interactionListeners[i], @))]
  /\ SetSched(runAxe(i, FALSE, Sched, isAxeRunning'))
  /\ UNCHANGED <<options, phase, scanVars, timerVars, debounceVars, isRunning>>
  /\ UNCHANGED errorVars
  /\ UNCHANGED gate
  /\ UNCHANGED located
  /\ UNCHANGED mutation

\* ----------------------------------------------------------- highlight

\* The caller calls the returned highlightElement.
CallHighlight(i, el) ==
  /\ IF options[i].enableHighlighting
     THEN /\ overlays' = HighlightNodes(overlays, highlightedElement, el)
          /\ highlightedElement' = HighlightRef(overlays)
     ELSE UNCHANGED overlayVars
  /\ UNCHANGED <<fixedVars, schedVars, watchVars, scanVars, timerVars, debounceVars, flagVars>>
  /\ UNCHANGED errorVars
  /\ UNCHANGED gate
  /\ UNCHANGED located
  /\ UNCHANGED mutation

\* The caller calls the returned removeHighlight.
CallRemoveHighlight(i) ==
  /\ overlays' = RemoveHighlightNodes(overlays, highlightedElement)
  /\ highlightedElement' = None
  /\ UNCHANGED <<fixedVars, schedVars, watchVars, scanVars, timerVars, debounceVars, flagVars>>
  /\ UNCHANGED errorVars
  /\ UNCHANGED gate
  /\ UNCHANGED located
  /\ UNCHANGED mutation

\* findElementInShadowDOM with the markup of a violation node: its first
\* strategy, the search by markup.
Locate(doc, html) ==
  /\ located = NoSearch
  /\ located' = [doc |-> doc, html |-> html,
                 element |-> findByHtmlContentInAllShadowRoots(html, doc)]
  /\ UNCHANGED <<fixedVars, schedVars, watchVars, scanVars, timerVars, debounceVars,
                 overlayVars, flagVars, errorVars, gate, mutation>>

\* logViolations applied to a scan result directly, on an enabled instance.
Reconcile(i, results, isInitialScan) ==
  /\ options[i].enabled
  /\ LogViolations(i, results, isInitialScan)
  /\ UNCHANGED <<fixedVars, schedVars, watchVars, hasRunInitialScan, initialScans, timerVars,
                 debounceVars, overlayVars, flagVars>>
  /\ UNCHANGED errorVars
  /\ UNCHANGED gate
  /\ UNCHANGED located
  /\ UNCHANGED mutation

\* ----------------------------------------------------- specifications

\* The component lifecycle.
Lifecycle ==
  \/ \E i \in Inst : Mount(i)
  \/ \E i \in Inst : MountTimerFire(i)
  \/ \E i \in Inst : Unmount(i)

\* The caller's scan requests.
Requests == \E i \in Inst, b \in BOOLEAN : CallRunAxe(i, b)

\* The steps of the queued thunks, the scanner returning one of `results` and
\* the target's content being one of `contents`.
ThunkSteps(results, contents) ==
  \/ \E t \in running : ImportDone(t)
  \/ \E t \in running : ImportFailed(t)
  \/ \E t \in running, c \in contents : ReadinessResolved(t, c)
  \/ \E t \in running, r \in results : ScanSucceeded(t, r)
  \/ \E t \in running : ScanBusy(t)
  \/ \E t \in running : ScanFailed(t)

Thunks == ThunkSteps(ScanResults, PromptContent)

\* The settle and retry timers.
Timers ==
  \/ \E i \in Inst : SettleTimerFire(i)
  \/ \E i \in Inst : RetryTimerFire(i)

\* The caller's cleanup() calls.
Cleanups == \E i \in Inst : CallCleanup(i)

\* cleanup() and a change of the element ref.
Changes ==
  \/ Cleanups
  \/ \E i \in Inst, el \in Targets \cup {NoEl} : TargetChange(i, el)

\* Mutations, interaction events and the debounce timer.
Events ==
  \/ \E i \in Inst : MutationBatch(i)
  \/ \E i \in Inst : InteractionEvent(i)
  \/ Tick
  \/ \E i \in Inst : DebounceFire(i)

\* The overlay calls.
Overlay ==
  \/ \E i \in Inst, el \in Targets : CallHighlight(i, el)
  \/ \E i \in Inst : CallRemoveHighlight(i)

Next == Lifecycle \/ Requests \/ Thunks \/ Timers \/ Changes \/ Events \/ Overlay

\* The whole composable.
Spec == Init /\ [][Next]_vars

\* The scan scheduler: every source of scan requests but the debounce timer,
\* whose request is the runAxe(false) of CallRunAxe.
NextSched == Lifecycle \/ Requests \/ Thunks \/ Timers \/ Changes

SpecSched == Init /\ [][NextSched]_vars

\* The watchers and the debounce: the scans the composable requests itself.
NextWatch == Lifecycle \/ Thunks \/ Timers \/ Changes \/ Events

SpecWatch == Init /\ [][NextWatch]_vars

\* The changes on the observed subtrees and the debounce.
NextMutate ==
  \/ Lifecycle
  \/ Thunks
  \/ Timers
  \/ \E i \in Inst, m \in MutationRecords : DomChange(i, m)
  \/ Tick
  \/ \E i \in Inst : DebounceFire(i)

SpecMutate == Init /\ [][NextMutate]_vars

\* Cleanup and the overlay.
NextClean == Lifecycle \/ Thunks \/ Timers \/ Changes \/ Overlay

SpecClean == Init /\ [][NextClean]_vars

\* logViolations on every scan result of bounded size, on instance 1.
InitDiff == Init /\ options[2] = DisabledOptions

NextDiff == \E i \in Inst, r \in AllResults, b \in BOOLEAN : Reconcile(i, r, b)

SpecDiff == InitDiff /\ [][NextDiff]_vars

\* The scheduler when every import, readiness wait and scanner call settles.
SpecLive == Init /\ [][NextSched]_vars /\ WF_vars(Thunks)

\* The initial scan of a mounted component and its retries: the mount timer
\* is the only caller of runAxe.
NextRetry == Lifecycle \/ Thunks \/ Timers

SpecRetry == Init /\ [][NextRetry]_vars

\* The scans of a document that changes between them.
FrameResults == { {RawImageAlt}, {RawLabel} }

NextFrame == Requests \/ ThunkSteps(FrameResults, PromptContent) \/ Changes

SpecFrame == Init /\ [][NextFrame]_vars

\* The initial scans of targets whose content becomes ready at any time, or
\* never, polled on time or late.
NextReady == Requests \/ ThunkSteps(ScanResults, Contents)

SpecReady == Init /\ [][NextReady]_vars

\* The locator on every document and markup.
NextLocate == \E doc \in Documents, html \in Markups : Locate(doc, html)

SpecLocate == InitDiff /\ [][NextLocate]_vars

\* The composable on targets that never change.
NextMount == Lifecycle \/ Requests \/ Thunks \/ Timers \/ Cleanups

SpecMount == Init /\ [][NextMount]_vars

\* A disabled instance in a component, with its watchers, next to an enabled
\* instance that scans.
InitOff ==
  /\ options = [i \in Inst |-> IF i = 1 THEN DisabledOptions ELSE BareOptions]
  /\ Created

NextOff == Lifecycle \/ Requests \/ Thunks \/ Timers \/ Changes \/ Events

SpecOff == InitOff /\ [][NextOff]_vars

\* ------------------------------------------------------------ the claims

\* The scanner invocations in progress: axe.run called and not yet settled.
ScansInFlight == {t \in running : t.pc = "scan"}

\* C1: whatever the instances and the interleaving of scan requests, target
\* changes and cleanup calls, at most one invocation of axe.run is in
\* progress at any time.
C1_SerialScans == Cardinality(ScansInFlight) <= 1

\* A scan is in flight with the global flag already reset by a cleanup, and
\* a request of the other instance waits in the queue.
C1_Witness ==
  \E t \in ScansInFlight :
    /\ ~isAxeRunning
    /\ \E k \in DOMAIN axeQueue : axeQueue[k].inst # t.inst

\* C2: two runAxe(true) calls made before the first initial scan completes
\* lead to exactly one executed initial scan of the instance.
C2_OneInitialScan == \A i \in Inst : initialScans[i] <= 1

\* C3: queued scans run in submission order, one at a time: the running
\* thunk was requested before every queued one, the queue holds the
\* requests in the order they were made, and a drain is active exactly
\* while a thunk runs, so that a second drain starts nothing.
C3_FifoOrder ==
  /\ Cardinality(running) <= 1
  /\ \A k \in 1 .. (Len(axeQueue) - 1) : axeQueue[k].ticket < axeQueue[k + 1].ticket
  /\ \A t \in running : \A k \in DOMAIN axeQueue : t.ticket < axeQueue[k].ticket
  /\ isProcessingQueue <=> running # {}
  /\ axeQueue # <<>> => isProcessingQueue

\* A thunk runs while two later requests, of both instances, wait in order.
C3_Witness ==
  /\ running # {}
  /\ Len(axeQueue) = 2
  /\ axeQueue[1].inst # axeQueue[2].inst

\* C4: while a scanner invocation, or the readiness wait before it, is in
\* flight, isAxeRunning is true, whatever cleanup calls or target changes
\* happen in the meantime.
C4_FlagCoversScan == \A t \in running : t.pc \in {"ready", "scan"} => isAxeRunning

\* The key of section 3 of a raw violation: rule id, stored impact, truncated targets.
ViolationKey(v) == createViolationKey(LogEntry(v))

\* The diff by violation key of the stored scan A and the raw scan B.
AddedByKey(previous, results) ==
  {v \in results : ViolationKey(v) \notin {createViolationKey(p) : p \in previous}}

RemovedByKey(previous, results) ==
  {p \in previous : createViolationKey(p) \notin {ViolationKey(v) : v \in results}}

\* C5: for a non-initial scan B after a scan A with violations, added is the
\* violations of B whose key is no key of A, and removed the violations of
\* A whose key is no key of B, for every impact, an absent one included.
C5_DiffByKey ==
  [][\A i \in Inst, r \in AllResults :
       Reconcile(i, r, FALSE) /\ previousViolations[i] # {}
         => /\ console'[i].added = AddedByKey(previousViolations[i], r)
            /\ console'[i].removed = RemovedByKey(previousViolations[i], r)]_vars

\* C6 as stated: the second of two calls with the same results and the
\* same flag reports nothing added and nothing removed, and the stored
\* previous set is the current one.
C6_SecondCallEmpty ==
  \A i \in Inst :
    repeated[i] => /\ console[i].added = {}
                   /\ console[i].removed = {}
                   /\ previousViolations[i] = violations[i]

\* C6 as amended: after every call the stored previous set is the current
\* one; the second of two equal calls reports, for a non-initial scan, as
\* added and as removed exactly the violations whose impact is absent, and
\* for an initial scan every current violation as added and none removed.
C6_SecondCall ==
  \A i \in Inst :
    /\ previousViolations[i] = violations[i]
    /\ repeated[i] =>
         IF console[i].initial
         THEN /\ StoreViolations(console[i].added) = violations[i]
              /\ console[i].removed = {}
         ELSE /\ \A v \in console[i].added : v.impact = "absent"
              /\ StoreViolations(console[i].added) = {p \in violations[i] : p.impact = "unknown"}
              /\ console[i].removed = {p \in violations[i] : p.impact = "unknown"}

\* The second of two equal non-initial calls, with two violations: nothing
\* is added or removed.
C6_Witness ==
  \E i \in Inst :
    /\ repeated[i] /\ ~console[i].initial
    /\ Cardinality(violations[i]) = 2
    /\ console[i].added = {} /\ console[i].removed = {}

\* C7: the triggers of one burst, each less than debounceDelay after the
\* one before, lead to exactly one scan request, made no sooner than
\* debounceDelay after the last trigger.
C7_Debounce ==
  \A i \in Inst :
    /\ burstRequests[i] <= 1
    /\ burstRequests[i] = 1 => sinceTrigger[i] = DebounceDelay /\ debounceTimeout[i] = {}
    /\ sinceTrigger[i] >= 0 /\ debounceTimeout[i] = {} => burstRequests[i] = 1

\* A burst of two or more triggers has led to its one request.
C7_Witness == \E i \in Inst : burstTriggers[i] = 2 /\ burstRequests[i] = 1

\* The state cleanup() leaves for instance i.
CleanedUp(i) ==
  /\ mutationObserver[i] = None
  /\ interactionListeners[i] = <<>>
  /\ \A el \in Targets : attached[i][el] = 0
  /\ overlays = EmptyOverlays
  /\ highlightedElement = None
  /\ i \notin axeInstances

\* Another cleanup() of instance i would change nothing.
CleanupChangesNothing(i) ==
  /\ CleanupInstances(i, axeInstances) = axeInstances
  /\ RemoveHighlightNodes(overlays, highlightedElement) = overlays
  /\ CleanupObserver(mutationObserver[i]) = mutationObserver[i]
  /\ RemoveListeners(interactionListeners[i], attached[i]) = attached[i]
  /\ CleanupListeners(interactionListeners[i]) = interactionListeners[i]
  /\ CleanupAxeRunning(i, axeInstances, isAxeRunning) = isAxeRunning

\* C8: cleanup() leaves the instance with no observer, no listener on any
\* target, no overlay and no registered handle, and a second call leaves
\* that state as it is.
C8_CleanupIdempotent ==
  [][\A i \in Inst :
       CallCleanup(i) \/ Unmount(i) => CleanedUp(i)' /\ CleanupChangesNothing(i)']_vars

\* The component unmounted after its watchers were set up and its initial
\* scan had registered it: nothing of it is left.
C8_Witness ==
  /\ phase[1] = "unmounted"
  /\ ~mountTimer[1] /\ hasRunInitialScan[1] /\ settleTimers[1] = 0
  /\ element[1] # NoEl
  /\ CleanedUp(1)

\* C9: when the target reference of an enabled instance changes, no watcher
\* of the instance is left on another target, the observer and one group of
\* listeners are on the new target, exactly one non-initial scan request is
\* issued, and a request that starts scanning reads the target of that moment.
C9_TargetSwap ==
  [][/\ \A i \in Inst, el \in Targets \cup {NoEl} :
          TargetChange(i, el) /\ options[i].enabled =>
            /\ element'[i] = el
            /\ \A e \in Targets \ {el} : attached'[i][e] = 0 /\ mutationObserver'[i] # e
            /\ el \in Targets /\ options[i].watchForChanges => mutationObserver'[i] = el
            /\ el \in Targets /\ options[i].watchInteractions =>
                 attached'[i][el] = 1 /\ interactionListeners'[i] = <<el>>
            /\ nextTicket' = nextTicket + 1
            /\ LET request == [inst |-> i, initial |-> FALSE, ticket |-> nextTicket]
               IN \/ \E k \in DOMAIN axeQueue' : axeQueue'[k] = request
                  \/ [inst |-> i, initial |-> FALSE, ticket |-> nextTicket,
                      pc |-> "import", target |-> None] \in running'
            /\ Len(axeQueue') + Cardinality(running') = Len(axeQueue) + Cardinality(running) + 1
      /\ \A t \in running :
          ImportDone(t) /\ element[t.inst] # NoEl =>
            \E u \in running' : u.ticket = t.ticket /\ u.target = element[t.inst]]_vars

\* The initial scan of the mounted instance ran on el1, where its watchers
\* were; after the change to el2 the watchers are on el2 only and the one
\* request the change issued, the second request of the run, is scanning el2.
C9_Witness ==
  /\ phase[1] = "mounted" /\ hasRunInitialScan[1]
  /\ element[1] = "el2"
  /\ mutationObserver[1] = "el2"
  /\ attached[1]["el2"] = 1 /\ attached[1]["el1"] = 0
  /\ nextTicket = 3
  /\ \E t \in running :
       t.inst = 1 /\ ~t.initial /\ t.ticket = 2 /\ t.pc = "scan" /\ t.target = "el2"

\* At most one overlay node, and the singleton reference is that node.
OverlayOk ==
  /\ Cardinality(DOMAIN overlays) <= 1
  /\ highlightedElement = None <=> overlays = EmptyOverlays
  /\ highlightedElement # None => DOMAIN overlays = {highlightedElement}

\* C10: at most one overlay node exists and highlightedElement is that node
\* exactly when it exists; after a highlightElement with highlighting enabled
\* the single overlay has the bounds of the element of that call, and after
\* removeHighlight or cleanup there is no overlay.
C10_OneOverlay ==
  [][/\ OverlayOk /\ OverlayOk'
     /\ \A i \in Inst, el \in Targets :
          CallHighlight(i, el) /\ options[i].enableHighlighting =>
            /\ Cardinality(DOMAIN overlays') = 1
            /\ overlays'[highlightedElement'] = el
     /\ \A i \in Inst :
          CallRemoveHighlight(i) \/ CallCleanup(i) \/ Unmount(i) =>
            overlays' = EmptyOverlays /\ highlightedElement' = None]_vars

\* The second of two successive highlightElement calls: its node is the one
\* overlay, with the bounds of el2.
C10_Witness ==
  /\ highlightedElement = "node2"
  /\ DOMAIN overlays = {"node2"}
  /\ overlays["node2"] = "el2"

\* C11: no failure of a scan crosses the public API: every error thrown in
\* a thunk is taken by the catch of queuedRun, so no thunk rejects, the catch
\* of processAxeQueue is never needed and no error leaves the drain uncaught.
C11_NoFailureCrosses == ~uncaught /\ diagnostic # QueueError

\* A scan failed with an error that was logged, and the drain went on with
\* the next thunk of the queue.
C11_Witness ==
  /\ diagnostic = ScanError
  /\ ~uncaught
  /\ isProcessingQueue
  /\ \E t \in running : t.pc = "import"

\* Thunk t is executing before the step and has ended after it.
Ends(t) == t \in running /\ \A u \in running' : u.ticket # t.ticket

\* C12: when a thunk ends, by success, by a failure, by a missing target or
\* by the skip, isRunning of its instance and isAxeRunning are false.
C12_FlagsClearedAtEnd ==
  [][/\ \A t \in running : Ends(t) => ~isRunning'[t.inst] /\ ~isAxeRunning'
     /\ skipped' /\ ~skipped => ~isAxeRunning' /\ \A i \in Inst : ~isRunning'[i]]_vars

\* A thunk has ended on a missing target, after it had set both flags; no
\* other thunk is past its import, and the flags are false.
C12_Witness ==
  /\ diagnostic = TargetNotFound
  /\ \A t \in running : t.pc = "import"
  /\ running # {}
  /\ ~isAxeRunning /\ \A i \in Inst : ~isRunning[i]

\* C13: isRunning of an instance is true only while a thunk of that instance
\* is executing past its import; at most one instance has it true, and no
\* instance has it true while the queue is idle.
C13_IsRunningOnlyInScan ==
  /\ \A i \in Inst : isRunning[i] => \E t \in running : t.inst = i /\ t.pc \in {"ready", "scan"}
  /\ Cardinality({i \in Inst : isRunning[i]}) <= 1
  /\ ~isProcessingQueue => \A i \in Inst : ~isRunning[i]

\* Instance 2 is scanning while a request of instance 1 waits in the queue:
\* isRunning is true for instance 2 only.
C13_Witness ==
  /\ isRunning[2] /\ ~isRunning[1]
  /\ \E t \in running : t.inst = 2 /\ t.pc = "scan"
  /\ \E k \in DOMAIN axeQueue : axeQueue[k].inst = 1

\* A scan request of instance i from one of its sources.
ScanRequest(i) ==
  \/ \E b \in BOOLEAN : CallRunAxe(i, b)
  \/ DebounceFire(i)
  \/ MountTimerFire(i)
  \/ RetryTimerFire(i)
  \/ \E el \in Targets \cup {NoEl} : TargetChange(i, el)

\* C14: on a disabled instance a scan request from any source enqueues
\* nothing and leaves the queue, the flags, violations and the initial-scan
\* mark as they are; no thunk of a disabled instance is ever queued or run.
C14_DisabledNoOp ==
  [][/\ \A i \in Inst :
          ~options[i].enabled /\ ScanRequest(i) =>
            UNCHANGED <<axeQueue, running, isProcessingQueue, nextTicket, isAxeRunning,
                        isRunning, violations, previousViolations, hasRunInitialScan>>
     /\ \A t \in running' : options[t.inst].enabled
     /\ \A k \in DOMAIN axeQueue' : options[axeQueue'[k].inst].enabled]_vars

\* The disabled instance has had its mount timer, a target change and a
\* debounce timer call runAxe while the other instance was scanning: it has
\* no violations and no mark, and the one request made is the other's.
C14_Witness ==
  /\ ~options[1].enabled
  /\ phase[1] = "mounted" /\ ~mountTimer[1]
  /\ element[1] = "el2"
  /\ burstRequests[1] = 1
  /\ nextTicket = 2
  /\ \E t \in running : t.inst = 2 /\ t.pc = "scan"
  /\ violations[1] = {} /\ ~hasRunInitialScan[1] /\ ~isRunning[1]

\* A runAxe(true) of instance i from one of its sources.
InitialRequest(i) == CallRunAxe(i, TRUE) \/ MountTimerFire(i) \/ RetryTimerFire(i)

\* C15: the initial-scan mark of an instance is set only by a successful
\* initial scan of that instance and never returns to false; once it is set,
\* a runAxe(true) of the instance enqueues nothing and starts no thunk.
C15_InitialGuard ==
  [][\A i \in Inst :
       /\ hasRunInitialScan[i] => hasRunInitialScan'[i]
       /\ ~hasRunInitialScan[i] /\ hasRunInitialScan'[i] =>
            \E t \in running, r \in ScanResults :
              t.inst = i /\ t.initial /\ ScanSucceeded(t, r)
       /\ hasRunInitialScan[i] /\ InitialRequest(i) =>
            UNCHANGED <<axeQueue, running, isProcessingQueue, nextTicket>>]_vars

\* The mark of instance 1 has outlived a target change and the cleanup of
\* its unmount, after one initial scan.
C15_Witness ==
  /\ hasRunInitialScan[1] /\ initialScans[1] = 1
  /\ element[1] = "el2"
  /\ phase[1] = "unmounted" /\ 1 \notin axeInstances
  /\ ~mountTimer[1] /\ retryTimers[1] = 0

\* C16: after the cleanup of its unmount, the handle of an instance is not
\* in axeInstances, in that state and in every later one.
C16_DetachedStaysOut == \A i \in Inst : phase[i] = "unmounted" => i \notin axeInstances

\* C17: absent a target change, a mutation observer or an interaction
\* listener of an instance is attached only once the initial scan of that
\* instance has completed.
C17_WatchersAfterInitialScan ==
  \A i \in Inst :
    (mutationObserver[i] # None \/ \E el \in Targets : attached[i][el] > 0)
      => hasRunInitialScan[i]

\* The drain goes on after thunk t: the head of the queue, if any, is the
\* thunk that starts.
NextThunkRuns(t) ==
  /\ Ends(t)
  /\ axeQueue # <<>> =>
       /\ axeQueue' = Tail(axeQueue)
       /\ \E u \in running' : u.ticket = Head(axeQueue).ticket /\ u.pc = "import"
  /\ axeQueue = <<>> => axeQueue' = <<>> /\ running' = {} /\ ~isProcessingQueue'

\* C18: a busy initial scan arms one retry timer, whose callback calls
\* runAxe(true) once; a busy scan that is not initial arms nothing and reports
\* nothing; another scanner error is logged and arms nothing. In the three
\* cases the thunk ends, nothing is uncaught and the next queued thunk starts.
C18_BusyRetry ==
  [][/\ \A t \in running :
          /\ ScanBusy(t) /\ t.initial =>
               /\ retryTimers' = [retryTimers EXCEPT ![t.inst] = @ + 1]
               /\ diagnostic' = None
          /\ ScanBusy(t) /\ ~t.initial => retryTimers' = retryTimers /\ diagnostic' = None
          /\ ScanFailed(t) => retryTimers' = retryTimers /\ diagnostic' = ScanError
          /\ ScanBusy(t) \/ ScanFailed(t) =>
               /\ NextThunkRuns(t)
               /\ ~uncaught' /\ nextTicket' = nextTicket
               /\ UNCHANGED <<violations, previousViolations, hasRunInitialScan>>
     /\ \A i \in Inst :
          RetryTimerFire(i) =>
            /\ retryTimers' = [retryTimers EXCEPT ![i] = @ - 1]
            /\ IF hasRunInitialScan[i]
               THEN UNCHANGED <<axeQueue, running, nextTicket>>
               ELSE /\ nextTicket' = nextTicket + 1
                    /\ \/ \E k \in DOMAIN axeQueue' :
                            axeQueue'[k] = [inst |-> i, initial |-> TRUE, ticket |-> nextTicket]
                       \/ \E u \in running' : u.inst = i /\ u.initial /\ u.ticket = nextTicket]_vars

\* The initial scan the mount timer requested was busy, and its retry, the
\* second request of the run, is executing; no other retry is pending.
C18_Witness ==
  /\ phase[1] = "mounted" /\ ~mountTimer[1]
  /\ element[1] = "el1" /\ sinceTrigger[1] = -1
  /\ nextTicket = 3
  /\ retryTimers[1] = 0 /\ ~hasRunInitialScan[1]
  /\ \E t \in running : t.inst = 1 /\ t.initial /\ t.ticket = 2 /\ t.pc = "scan"

\* Request k waits in the queue.
Queued(k) == \E j \in DOMAIN axeQueue : axeQueue[j].ticket = k

\* The thunk of request k is executing.
Executing(k) == \E t \in running : t.ticket = k

\* C19: every request in the queue is eventually executed, and whenever no
\* drain is active the queue is empty.
C19_QueueDrains ==
  /\ [](~isProcessingQueue => axeQueue = <<>>)
  /\ \A k \in 1 .. MaxRequests : Queued(k) ~> Executing(k)

\* Every request the run may hold has been taken from the queue, and the
\* last of them is being scanned.
C19_Witness ==
  /\ nextTicket = MaxRequests + 1
  /\ axeQueue = <<>>
  /\ \E t \in running : t.ticket = MaxRequests /\ t.pc = "scan"

\* C20: there is no cap on the busy retries of an initial scan. While the
\* initial scan has not completed and the attempt that ended last was busy or
\* none has ended, an attempt is queued or executing or a retry timer is
\* pending, whatever the number of attempts made; once an attempt succeeds
\* the initial scan is complete, no retry is pending and none is made.
C20_NoRetryCap ==
  \A i \in InComponent :
    /\ nextTicket > 1 /\ ~hasRunInitialScan[i] /\ diagnostic = None =>
         running # {} \/ axeQueue # <<>> \/ retryTimers[i] > 0
    /\ hasRunInitialScan[i] =>
         /\ initialScans[i] = 1
         /\ retryTimers[i] = 0 /\ running = {} /\ axeQueue = <<>>

\* Every attempt the run may hold has been made and was busy, and one more
\* retry is pending.
C20_Witness ==
  /\ nextTicket = MaxRequests + 1
  /\ ~hasRunInitialScan[1] /\ diagnostic = None
  /\ running = {} /\ axeQueue = <<>>
  /\ retryTimers[1] = 1

\* C21: a thunk that finds no target ends with the warning: it reaches
\* neither the readiness wait nor the scanner, the initial-scan mark, the
\* retry and settle timers, the watchers and the violations are as before,
\* and both flags are false.
C21_MissingTarget ==
  [][\A t \in running :
       ImportDone(t) /\ element[t.inst] = NoEl =>
         /\ Ends(t)
         /\ diagnostic' = TargetNotFound
         /\ ~isAxeRunning' /\ ~isRunning'[t.inst]
         /\ UNCHANGED <<hasRunInitialScan, initialScans, retryTimers, settleTimers,
                        mutationObserver, interactionListeners, attached,
                        violations, previousViolations, console>>]_vars

\* The last thunk to end found the ref of instance 1 empty: nothing is
\* running, no timer is pending, and the instance has no mark.
C21_Witness ==
  /\ element[1] = NoEl
  /\ diagnostic = TargetNotFound
  /\ running = {} /\ axeQueue = <<>>
  /\ ~hasRunInitialScan[1] /\ retryTimers[1] = 0 /\ settleTimers[1] = 0
  /\ ~isAxeRunning /\ ~isRunning[1]

\* C22: violations and previousViolations of an instance change only in a
\* step in which a scanner call of that instance succeeds, and violations is
\* then the normalized result of that scan alone; a busy or failed scan, a
\* failed import and a missing target leave both as they were.
C22_ViolationsFrame ==
  [][/\ \A i \in Inst :
          violations'[i] # violations[i] \/ previousViolations'[i] # previousViolations[i] =>
            \E t \in running, r \in FrameResults : t.inst = i /\ ScanSucceeded(t, r)
     /\ \A t \in running, r \in FrameResults :
          ScanSucceeded(t, r) =>
            /\ violations'[t.inst] = StoreViolations(r)
            /\ previousViolations'[t.inst] = StoreViolations(r)
     /\ \A t \in running :
          ScanBusy(t) \/ ScanFailed(t) \/ ImportFailed(t)
            \/ (ImportDone(t) /\ element[t.inst] = NoEl) =>
            UNCHANGED <<violations, previousViolations>>]_vars

\* A second scan of instance 1 has replaced the one violation of the first
\* by another, and the run that ended last, a failed one, has left that.
C22_Witness ==
  /\ violations[1] = StoreViolations({RawLabel})
  /\ console[1].kind = "update" /\ console[1].removed # {}
  /\ diagnostic = ScanError
  /\ nextTicket = MaxRequests + 1 /\ running = {}
  /\ violations[2] = {} /\ ~options[2].enabled

\* The times of the polls of a wait that content c never ends.
Polls(c) == {k * c.delay : k \in 0 .. MaxWaitTime}

\* The first poll at or after maxWaitTime.
Deadline(c) ==
  CHOOSE p \in Polls(c) :
    p >= MaxWaitTime /\ \A q \in Polls(c) : q >= MaxWaitTime => p <= q

\* How the gate of instance i resolves on content c: true at once when
\* waitForContent is off, true at the first poll that finds the content
\* ready, false with a warning at the deadline when no poll up to it does.
GateResult(i, c) ==
  IF ~options[i].waitForContent
  THEN [result |-> TRUE, at |-> 0, warned |-> FALSE]
  ELSE LET hits == {p \in Polls(c) : p \in c.ready /\ p <= Deadline(c)}
       IN IF hits # {}
          THEN [result |-> TRUE, at |-> CHOOSE p \in hits : \A q \in hits : p <= q,
                warned |-> FALSE]
          ELSE [result |-> FALSE, at |-> Deadline(c), warned |-> TRUE]

\* C23: the readiness gate resolves for every content: true at once when
\* waitForContent is off, true at the first poll that finds the content
\* ready, false at the first poll at or after maxWaitTime that does not. Only
\* initial thunks wait for it, and whatever it resolves to the scanner is
\* called next.
C23_ReadinessGate ==
  [][/\ \A t \in running, c \in Contents :
          ReadinessResolved(t, c) =>
            /\ t.initial
            /\ gate' = GateResult(t.inst, c)
            /\ [t EXCEPT !.pc = "scan"] \in running'
     /\ gate' # gate =>
          \E t \in running, c \in Contents : t.initial /\ ReadinessResolved(t, c)
     /\ \A t \in running :
          ImportDone(t) /\ element[t.inst] # NoEl =>
            [t EXCEPT !.pc = IF t.initial THEN "ready" ELSE "scan",
                      !.target = element[t.inst]] \in running']_vars

\* The gate of an initial scan resolved false with the warning, at a late
\* poll after maxWaitTime, and the scanner has been called.
C23_Witness ==
  /\ gate = [result |-> FALSE, at |-> MaxWaitTime + 1, warned |-> TRUE]
  /\ \E t \in running : t.inst = 1 /\ t.initial /\ t.pc = "scan"

RECURSIVE AttributeFirstFrom(_, _, _)
\* The search that tries each strategy on the root tree and then on every
\* nested shadow tree before it goes on to the next strategy.
AttributeFirstFrom(k, html, doc) ==
  IF k > Len(Strategies) THEN None
  ELSE LET inRoot == querySelector(doc, "root", Strategies[k])
           inH == querySelector(doc, "shadowH", Strategies[k])
           inH2 == querySelector(doc, "shadowH2", Strategies[k])
       IN IF ~(Strategies[k] \subseteq html) THEN AttributeFirstFrom(k + 1, html, doc)
          ELSE IF inRoot # None THEN inRoot
          ELSE IF inH # None THEN inH
          ELSE IF inH2 # None THEN inH2
          ELSE AttributeFirstFrom(k + 1, html, doc)

\* C24: the element found is the one the first strategy that matches
\* anywhere, in the root or in a nested shadow tree, finds: a match of the id
\* in a shadow tree is preferred to a match of the role or class in the root.
C24_AttributeFirst ==
  located.html # {} => located.element = AttributeFirstFrom(1, located.html, located.doc)

\* The changes the observer is to react to: a node added or removed, an
\* aria-* attribute, an attribute of the accessibility-relevant set.
Relevant(m) ==
  \/ m.type = "childList"
  \/ m.attributeName[1] = "aria-"
  \/ m.attributeName \in {<<"role">>, <<"tabindex">>, <<"alt">>, <<"title">>, <<"disabled">>,
                           <<"hidden">>, <<"class">>, <<"style">>, <<"id">>, <<"for">>}

\* C25: a change on the observed subtree starts the debounce timer anew if it
\* is a node added or removed, an aria-* attribute or an attribute of the
\* accessibility-relevant set, and leaves the debounce alone otherwise.
C25_RelevantChanges ==
  [][\A i \in Inst, m \in MutationRecords :
       DomChange(i, m) =>
         IF Relevant(m)
         THEN debounceTimeout'[i] = {DebounceDelay} /\ sinceTrigger'[i] = 0
         ELSE UNCHANGED debounceVars]_vars

\* C25, the part the observer does as stated: the changes observe() asks for.
C25_ObservedChanges ==
  [][\A i \in Inst, m \in MutationRecords :
       DomChange(i, m) =>
         IF Relevant(m) /\ Observed(m)
         THEN debounceTimeout'[i] = {DebounceDelay} /\ sinceTrigger'[i] = 0
         ELSE UNCHANGED debounceVars]_vars

\* Instance i attaches a mutation observer or an interaction listener.
Attaches(i) ==
  \/ mutationObserver[i] = None /\ mutationObserver'[i] # None
  \/ \E el \in Targets : attached'[i][el] > attached[i][el]

\* A timer of instance i calls runAxe.
TimerRequest(i) == DebounceFire(i) \/ MountTimerFire(i) \/ RetryTimerFire(i)

\* C26: once the component of an instance has unmounted, and cleanup() has
\* run with no mount or target change to follow, the instance attaches no
\* observer and no listener and none of its timers issues a scan request.
C26_CleanupIsFinal ==
  [][\A i \in Inst : phase[i] = "unmounted" => ~Attaches(i) /\ ~TimerRequest(i)]_vars

\* C27: an instance has at most one listener per event type on a target, its
\* one observer aside, and a cleanup() leaves no listener of the instance
\* attached.
C27_NoDuplicates ==
  \A i \in Inst, el \in Targets : attached[i][el] <= 1

\* C27, the cleanup part: a cleanup() removes every listener of the instance.
C27_CleanupRemovesAll ==
  [][\A i \in Inst : CallCleanup(i) \/ Unmount(i) => \A el \in Targets : attached'[i][el] = 0]_vars

\* C28: the early return of a queued thunk is never taken: whenever a thunk
\* starts executing isAxeRunning is false, and no thunk has ever been skipped.
C28_SkipNeverTaken ==
  /\ []~skipped
  /\ [][\A t \in running' \ running : t.pc = "import" => ~isAxeRunning']_vars

\* The thunk of a later request has started, after the scan of an earlier one
\* had set and cleared the flag, and started unskipped.
C28_Witness ==
  /\ \E t \in running : t.pc = "import" /\ t.ticket >= 2
  /\ \E i \in Inst : violations[i] # {}
  /\ ~isAxeRunning
  /\ ~skipped

=============================================================================
